---- MODULE Spec2Model ----
(***************************************************************************)
(* Model of the crawler of lab_5_scrapper/scrapper.py (Config, Crawler,    *)
(* CrawlerRecursive, HTMLParser, prepare_environment, main) and of the     *)
(* dataset check of lab_6_pipeline/pipeline.py (CorpusManager).            *)
(*                                                                         *)
(* Text is a sequence of one-character strings, so that prefix matching,   *)
(* splitting and slicing are computed as the code computes them.           *)
(***************************************************************************)
EXTENDS Integers, Sequences, FiniteSets, TLC

VARIABLES
    pc,          \* position of the running entry point
    raised,      \* name of the exception that ended it, "none" otherwise
    conf,        \* the configuration document at path_to_config
    config,      \* <<>> before construction, <<Config object>> after
    url_pattern, \* Crawler.url_pattern
    urls,        \* Crawler.urls
    start_url,   \* CrawlerRecursive.start_url
    seed_urls,   \* the listing pages find_articles iterates over
    page,        \* number of listing pages find_articles has handled
    fetched,     \* the URLs make_request was called with, in call order
    listing,     \* response.ok of every listing page requested so far
    bootstrap,   \* <<>>, or <<the response to CrawlerRecursive's first request>>
    last_page,   \* CrawlerRecursive.find_articles' last_page
    assets_is_dir, \* whether ASSETS_PATH is a directory
    assets,      \* the files in ASSETS_PATH
    index,       \* main's enumerate index: articles extracted and persisted
    article,     \* <<>>, or <<the article parse returned, not yet persisted>>
    article_response, \* <<>>, or <<the response parse got for that article>>
    odd,         \* article responses so far that were not the regular page
    run,         \* the run of main under way: its number, how often it called
                 \* prepare_environment, the files it wrote, and the ids of
                 \* the articles the run before it wrote
    storage      \* CorpusManager._storage: <<>> unset, <<set of entries>> after

cfgVars == <<conf, config>>
crawlVars == <<url_pattern, urls, start_url, seed_urls, page, fetched, listing>>
recVars == <<bootstrap, last_page>>
mainVars == <<assets_is_dir, assets, index, article, article_response, odd, run>>
corpusVars == <<storage>>

----------------------------------------------------------------------------
(* Text helpers.                                                           *)

HTTPS == <<"h", "t", "t", "p", "s", ":", "/", "/">>
HTTP == <<"h", "t", "t", "p", ":", "/", "/">>
FTP == <<"f", "t", "p", ":", "/", "/">>
NEWS == <<"/", "n", "e", "w", "s">>

StartsWith(s, p) == Len(s) >= Len(p) /\ SubSeq(s, 1, Len(p)) = p

Range(s) == { s[i] : i \in 1..Len(s) }

\* s[n::]
DropFirst(s, n) == SubSeq(s, n + 1, Len(s))

\* s[:-1]
DropLast(s) == SubSeq(s, 1, Len(s) - 1)

\* s.split(c)[0]
RECURSIVE SplitFirst(_, _, _)
SplitFirst(s, c, i) ==
    IF i > Len(s) THEN s
    ELSE IF s[i] = c THEN SubSeq(s, 1, i - 1)
    ELSE SplitFirst(s, c, i + 1)

Digits == <<"0", "1", "2", "3", "4", "5", "6", "7", "8", "9">>

DigitSet == {"0", "1", "2", "3", "4", "5", "6", "7", "8", "9"}

IsDigit(c) == c \in DigitSet

DigitValue(c) ==
    CASE c = "0" -> 0 [] c = "1" -> 1 [] c = "2" -> 2 [] c = "3" -> 3
      [] c = "4" -> 4 [] c = "5" -> 5 [] c = "6" -> 6 [] c = "7" -> 7
      [] c = "8" -> 8 [] c = "9" -> 9

\* str(num) of an integer
RECURSIVE StrNat(_)
StrNat(n) ==
    IF n < 10 THEN <<Digits[n + 1]>>
    ELSE StrNat(n \div 10) \o <<Digits[(n % 10) + 1]>>

Str(n) == IF n < 0 THEN <<"-">> \o StrNat(0 - n) ELSE StrNat(n)

RECURSIVE NatOfDigits(_, _)
NatOfDigits(s, acc) ==
    IF s = <<>> THEN acc
    ELSE NatOfDigits(Tail(s), 10 * acc + DigitValue(Head(s)))

AllDigits(s) == s # <<>> /\ \A i \in 1..Len(s) : IsDigit(s[i])

\* int(text): <<value>>, or <<>> where int raises ValueError
IntOf(s) ==
    IF AllDigits(s) THEN <<NatOfDigits(s, 0)>>
    ELSE IF s # <<>> /\ Head(s) \in {"-", "+"} /\ AllDigits(Tail(s))
    THEN <<(IF Head(s) = "-" THEN 0 - 1 ELSE 1) * NatOfDigits(Tail(s), 0)>>
    ELSE <<>>

----------------------------------------------------------------------------
(* JSON values of the configuration document, as json.load returns them.   *)
(* Every value carries all fields so that values of different types can be *)
(* compared: t is the Python type, n the number (bool: 0/1), s the text,   *)
(* xs the elements of a list or the entries of a dict (k is an entry's     *)
(* key).                                                                   *)

Elem(t, n, s, k) == [t |-> t, n |-> n, s |-> s, k |-> k]
JVal(t, n, s, xs) == [t |-> t, n |-> n, s |-> s, xs |-> xs]
JStr(s) == JVal("str", 0, s, <<>>)
JInt(n) == JVal("int", n, <<>>, <<>>)
JBool(b) == JVal("bool", IF b THEN 1 ELSE 0, <<>>, <<>>)
JNull == JVal("NoneType", 0, <<>>, <<>>)
JList(xs) == JVal("list", 0, <<>>, xs)
JDict(xs) == JVal("dict", 0, <<>>, xs)
EStr(s) == Elem("str", 0, s, <<>>)
EInt(n) == Elem("int", n, <<>>, <<>>)

\* isinstance(v, int): bool is a subclass of int
IsInstanceInt(v) == v.t \in {"int", "bool"}
IsInstanceBool(v) == v.t = "bool"
IsInstanceStr(v) == v.t = "str"
IsInstanceList(v) == v.t = "list"
IsInstanceDict(v) == v.t = "dict"

----------------------------------------------------------------------------
(* Config                                                                  *)

\* all(re.match(r"https://", seed_url) for seed_url in conf['seed_urls']):
\* elements are visited in order, the scan stops at the first one that does
\* not match, and re.match raises TypeError on an element that is no string.
RECURSIVE AllMatchHttps(_, _)
AllMatchHttps(xs, i) ==
    IF i > Len(xs) THEN "True"
    ELSE IF xs[i].t # "str" THEN "TypeError"
    ELSE IF ~StartsWith(xs[i].s, HTTPS) THEN "False"
    ELSE AllMatchHttps(xs, i + 1)

SeedUrlsCheck(v) ==
    IF ~IsInstanceList(v) THEN "IncorrectSeedURLError"
    ELSE LET r == AllMatchHttps(v.xs, 1)
         IN  IF r = "True" THEN "ok"
             ELSE IF r = "False" THEN "IncorrectSeedURLError"
             ELSE r

\* mutant: the first check also turns away 0
NumArticlesCheck_ZeroIncorrect(num) ==
    IF ~IsInstanceInt(num) \/ num.n <= 0 \/ IsInstanceBool(num)
    THEN "IncorrectNumberOfArticlesError"
    ELSE IF num.n > 150 \/ num.n < 1
    THEN "NumberOfArticlesOutOfRangeError"
    ELSE "ok"

NumArticlesCheck(num) ==
    IF ~IsInstanceInt(num) \/ num.n < 0 \/ IsInstanceBool(num)
    THEN "IncorrectNumberOfArticlesError"
    ELSE IF num.n > 150 \/ num.n < 1
    THEN "NumberOfArticlesOutOfRangeError"
    ELSE "ok"

HeadersCheck(v) == IF ~IsInstanceDict(v) THEN "IncorrectHeadersError" ELSE "ok"

EncodingCheck(v) == IF ~IsInstanceStr(v) THEN "IncorrectEncodingError" ELSE "ok"

VerifyCheck(verify, headless) ==
    IF ~IsInstanceBool(verify) \/ ~IsInstanceBool(headless)
    THEN "IncorrectVerifyError"
    ELSE "ok"

TimeoutCheck(v) ==
    IF ~IsInstanceInt(v) \/ v.n >= 60 \/ v.n <= 0
    THEN "IncorrectTimeoutError"
    ELSE "ok"

\* Config._validate_config_content: "ok" or the name of the exception raised
ValidateConfigContent(c) ==
    IF SeedUrlsCheck(c.seed_urls) # "ok" THEN SeedUrlsCheck(c.seed_urls)
    ELSE IF NumArticlesCheck(c.total_articles_to_find_and_parse) # "ok"
    THEN NumArticlesCheck(c.total_articles_to_find_and_parse)
    ELSE IF HeadersCheck(c.headers) # "ok" THEN HeadersCheck(c.headers)
    ELSE IF EncodingCheck(c.encoding) # "ok" THEN EncodingCheck(c.encoding)
    ELSE IF VerifyCheck(c.should_verify_certificate, c.headless_mode) # "ok"
    THEN VerifyCheck(c.should_verify_certificate, c.headless_mode)
    ELSE TimeoutCheck(c.timeout)

\* core_utils.config_dto.ConfigDTO: a holder of the seven values
ConfigDTO(seeds, total, headers, encoding, timeout, verify, headless) ==
    [seed_urls |-> seeds, total_articles |-> total, headers |-> headers,
     encoding |-> encoding, timeout |-> timeout,
     should_verify_certificate |-> verify, headless_mode |-> headless]

ExtractConfigContent(c) ==
    ConfigDTO(c.seed_urls, c.total_articles_to_find_and_parse, c.headers,
              c.encoding, c.timeout, c.should_verify_certificate,
              c.headless_mode)

\* the attributes Config.__init__ sets from the DTO
ConfigObject(dto) ==
    [_seed_urls |-> dto.seed_urls, _num_articles |-> dto.total_articles,
     _headers |-> dto.headers, _encoding |-> dto.encoding,
     _timeout |-> dto.timeout,
     _should_verify_certificate |-> dto.should_verify_certificate,
     _headless_mode |-> dto.headless_mode]

get_seed_urls(cfg) == cfg._seed_urls
get_num_articles(cfg) == cfg._num_articles
get_headers(cfg) == cfg._headers
get_encoding(cfg) == cfg._encoding
get_timeout(cfg) == cfg._timeout
get_verify_certificate(cfg) == cfg._should_verify_certificate
get_headless_mode(cfg) == cfg._headless_mode

----------------------------------------------------------------------------
(* Configuration documents the runs are given.                             *)

SeedPage0 == HTTPS \o <<"s">> \o NEWS \o <<"?", "p", "=", "0">>
SeedPage1 == HTTPS \o <<"s">> \o NEWS \o <<"?", "p", "=", "1">>

SeedUrlsValues ==
    { JList(<<EStr(SeedPage0)>>),
      JList(<<EStr(SeedPage0), EStr(SeedPage1)>>),
      JList(<<>>),
      JList(<<EStr(HTTP \o <<"s">>)>>),
      JList(<<EStr(SeedPage0), EStr(FTP \o <<"s">>)>>),
      JList(<<EStr(SeedPage0), EInt(5)>>),
      JStr(SeedPage0),
      JNull }

NumArticlesValues ==
    { JInt(n) : n \in {-1, 0, 1, 2, 150, 151} }
        \cup {JBool(TRUE), JStr(<<"5">>), JNull}

HeadersValues ==
    { JDict(<<>>), JDict(<<Elem("str", 0, <<"x">>, <<"a">>)>>),
      JList(<<>>), JNull }

EncodingValues == { JStr(<<"u", "t", "f", "-", "8">>), JInt(8) }

FlagValues == { JBool(TRUE), JBool(FALSE), JInt(1) }

TimeoutValues ==
    { JInt(n) : n \in {-1, 0, 1, 59, 60} }
        \cup {JBool(TRUE), JBool(FALSE), JStr(<<"5">>)}

ConfDoc(seeds, num, headers, encoding, timeout, verify, headless) ==
    [seed_urls |-> seeds, total_articles_to_find_and_parse |-> num,
     headers |-> headers, encoding |-> encoding, timeout |-> timeout,
     should_verify_certificate |-> verify, headless_mode |-> headless]

ConfDocs ==
    { ConfDoc(s, n, h, e, t, v, m) :
        s \in SeedUrlsValues, n \in NumArticlesValues, h \in HeadersValues,
        e \in EncodingValues, t \in TimeoutValues, v \in FlagValues,
        m \in {JBool(FALSE), JNull} }

----------------------------------------------------------------------------
(* Config.__init__: validation, then extraction and the attribute          *)
(* assignments; an exception of the validation leaves no Config.           *)

ConfigInit(next_pc) ==
    /\ pc = "config"
    /\ LET r == ValidateConfigContent(conf)
       IN  IF r = "ok"
           THEN /\ config' = <<ConfigObject(ExtractConfigContent(conf))>>
                /\ pc' = next_pc
                /\ raised' = "none"
           ELSE /\ config' = <<>>
                /\ pc' = "raised"
                /\ raised' = r
    /\ UNCHANGED <<conf, crawlVars, recVars, mainVars, storage>>

----------------------------------------------------------------------------
(* Listing pages and Crawler                                               *)

\* the link text 'Подробнее' ("read more")
MARKER == "Podrobnee"

Anchor(hreflang, strings, href) ==
    [hreflang |-> hreflang, strings |-> strings, href |-> href]

HrefA == NEWS \o <<"/", "a">>
HrefB == NEWS \o <<"/", "b">>
HrefC == NEWS \o <<"/", "c">>

\* a listing page is the sequence of its anchors, in document order
PageThree ==
    << Anchor("ru", <<MARKER>>, HrefA), Anchor("ru", <<MARKER>>, HrefB),
       Anchor("ru", <<MARKER>>, HrefC) >>
PageMixed ==
    << Anchor("en", <<MARKER>>, HrefA), Anchor("ru", <<"Home">>, HrefB),
       Anchor("ru", <<"x", MARKER>>, HrefC) >>
PageNone == << Anchor("ru", <<"Home">>, HrefB) >>

ListingPages == {PageThree, PageMixed, PageNone}

\* what make_request gives for a listing page: a response whose ok is true
\* or false, or an exception of requests.get
Response(kind, links) == [kind |-> kind, links |-> links]
ListingResponses ==
    { Response("ok", p) : p \in ListingPages }
        \cup { Response("not_ok", <<>>), Response("exception", <<>>) }

\* article_bs.findAll('a', hreflang='ru')
RECURSIVE FindAllRu(_)
FindAllRu(anchors) ==
    IF anchors = <<>> THEN <<>>
    ELSE IF Head(anchors).hreflang = "ru"
    THEN <<Head(anchors)>> \o FindAllRu(Tail(anchors))
    ELSE FindAllRu(Tail(anchors))

\* the for loop of Crawler._extract_url over links[i..], url being the value
\* the variable holds on entry
RECURSIVE ExtractLoop(_, _, _, _)
ExtractLoop(links, i, url, collected) ==
    IF i > Len(links) THEN url
    ELSE IF MARKER \in Range(links[i].strings)
    THEN IF links[i].href \notin Range(collected)
         THEN links[i].href
         ELSE ExtractLoop(links, i + 1, links[i].href, collected)
    ELSE ExtractLoop(links, i + 1, url, collected)

\* Crawler._extract_url
ExtractUrl(article_bs, pattern, collected) ==
    pattern \o DropFirst(ExtractLoop(FindAllRu(article_bs), 1, <<>>, collected),
                         Len(NEWS))

ExtractionsPerPage == 10

\* mutant: one extraction per page
ExtractTen_Once(article_bs, pattern, collected) ==
    <<ExtractUrl(article_bs, pattern, collected)>>

\* [self._extract_url(article_bs) for i in range(10)]: self.urls is extended
\* only after the ten calls
ExtractTen(article_bs, pattern, collected) ==
    [i \in 1..ExtractionsPerPage |-> ExtractUrl(article_bs, pattern, collected)]

SeedStrings(cfg) ==
    [i \in 1..Len(get_seed_urls(cfg).xs) |-> get_seed_urls(cfg).xs[i].s]

\* Crawler.get_search_urls
GetSearchUrls(cfg) == SeedStrings(cfg)

\* Crawler.__init__; get_seed_urls()[0] raises IndexError on an empty list
CrawlerInit ==
    /\ pc = "crawler_init"
    /\ IF Len(get_seed_urls(config[1]).xs) = 0
       THEN /\ pc' = "raised"
            /\ raised' = "IndexError"
            /\ UNCHANGED <<url_pattern, urls, seed_urls>>
       ELSE /\ url_pattern' = SplitFirst(SeedStrings(config[1])[1], "?", 1)
            /\ urls' = <<>>
            /\ seed_urls' = GetSearchUrls(config[1])
            /\ pc' = "find_articles"
            /\ UNCHANGED raised
    /\ UNCHANGED <<cfgVars, start_url, page, fetched, listing, recVars, mainVars, storage>>

\* one iteration of the for loop of find_articles (Crawler, and the same loop
\* of CrawlerRecursive): the request for the next listing page and, for an ok
\* response, the ten extractions and the extend
FetchListingPage(next_pc) ==
    /\ pc = "find_articles"
    /\ page < Len(seed_urls)
    /\ \E response \in ListingResponses :
        /\ fetched' = Append(fetched, seed_urls[page + 1])
        /\ IF response.kind = "exception"
           THEN /\ pc' = "raised"
                /\ raised' = "RequestException"
                /\ UNCHANGED <<urls, page, listing>>
           ELSE /\ page' = page + 1
                /\ listing' = Append(listing, response.kind = "ok")
                /\ urls' = IF response.kind = "ok"
                           THEN urls \o ExtractTen(response.links, url_pattern, urls)
                           ELSE urls
                /\ pc' = IF page + 1 = Len(seed_urls) THEN next_pc ELSE pc
                /\ UNCHANGED raised
    /\ UNCHANGED <<cfgVars, url_pattern, start_url, seed_urls, recVars, mainVars, storage>>

----------------------------------------------------------------------------
(* CrawlerRecursive                                                        *)

\* of the bootstrap page the model keeps pager: <<>> when no element has the
\* class 'pager__item pager__item--last', else <<href of its first anchor>>
MaxLastPage == 5

PagerHrefs ==
    { Str(n) : n \in 0..MaxLastPage }
        \cup { Str(0 - 1), <<"?", "p", "=", "2">> }

BootstrapResponses ==
    { [kind |-> "ok", pager |-> <<h>>] : h \in PagerHrefs }
        \cup { [kind |-> "ok", pager |-> <<>>],
               [kind |-> "not_ok", pager |-> <<>>],
               [kind |-> "exception", pager |-> <<>>] }

\* mutant: the pages are numbered from 1
PageUrls_FromOne(start, last) ==
    [i \in 1..(IF last > 0 THEN last ELSE 0) |-> start \o Str(i)]

\* [f"{self.start_url}{str(num)}" for num in range(0, last_page)]
PageUrls(start, last) ==
    [i \in 1..(IF last > 0 THEN last ELSE 0) |-> start \o Str(i - 1)]

\* CrawlerRecursive.__init__
CrawlerRecursiveInit ==
    /\ pc = "crawler_init"
    /\ IF Len(get_seed_urls(config[1]).xs) = 0
       THEN /\ pc' = "raised"
            /\ raised' = "IndexError"
            /\ UNCHANGED <<url_pattern, urls, start_url>>
       ELSE /\ url_pattern' = SplitFirst(SeedStrings(config[1])[1], "?", 1)
            /\ urls' = <<>>
            /\ start_url' = DropLast(SeedStrings(config[1])[1])
            /\ pc' = "bootstrap"
            /\ UNCHANGED raised
    /\ UNCHANGED <<cfgVars, seed_urls, page, fetched, listing, recVars, mainVars, storage>>

\* mutant: a response that is not ok is raised (raise_for_status)
BootstrapResult_RaiseOnNotOk(response) ==
    IF response.kind # "ok" THEN [raised |-> "HTTPError", last_page |-> 0]
    ELSE IF response.pager = <<>>
    THEN [raised |-> "AttributeError", last_page |-> 0]
    ELSE IF IntOf(response.pager[1]) = <<>>
    THEN [raised |-> "ValueError", last_page |-> 0]
    ELSE [raised |-> "none", last_page |-> IntOf(response.pager[1])[1]]

\* CrawlerRecursive.find_articles, lines 301-310, for a response that is
\* not an exception: the exception raised ("none" if none) and last_page
BootstrapResult(response) ==
    IF response.kind # "ok" THEN [raised |-> "none", last_page |-> 0]
    ELSE IF response.pager = <<>>
    THEN [raised |-> "AttributeError", last_page |-> 0]
    ELSE IF IntOf(response.pager[1]) = <<>>
    THEN [raised |-> "ValueError", last_page |-> 0]
    ELSE [raised |-> "none", last_page |-> IntOf(response.pager[1])[1]]

\* CrawlerRecursive.find_articles up to the list of page URLs
Bootstrap ==
    /\ pc = "bootstrap"
    /\ \E response \in BootstrapResponses :
        /\ fetched' = Append(fetched, start_url)
        /\ bootstrap' = <<response>>
        /\ IF response.kind = "exception"
           THEN /\ pc' = "raised" /\ raised' = "RequestException"
                /\ UNCHANGED <<seed_urls, last_page>>
           ELSE LET r == BootstrapResult(response)
                IN  IF r.raised # "none"
                    THEN /\ pc' = "raised" /\ raised' = r.raised
                         /\ UNCHANGED <<seed_urls, last_page>>
                    ELSE /\ last_page' = r.last_page
                         /\ seed_urls' = PageUrls(start_url, r.last_page)
                         /\ pc' = IF Len(PageUrls(start_url, r.last_page)) > 0
                                  THEN "find_articles" ELSE "done"
                         /\ UNCHANGED raised
    /\ UNCHANGED <<cfgVars, url_pattern, urls, start_url, page, listing, mainVars, storage>>

----------------------------------------------------------------------------
(* Article pages and HTMLParser                                            *)
(* An optional value (None, or a missing element) is <<>> or <<value>>.    *)

Chars(date, time) == date \o <<" ">> \o time

DateGood == Chars(<<"2", "0", "2", "3", "-", "0", "5", "-", "0", "1">>,
                  <<"1", "2", ":", "0", "0", ":", "0", "0">>)
DateWords == <<"M", "a", "y", " ", "1", ",", " ", "2", "0", "2", "3">>
\* 2023-5-1 9:05:03
DateShort == Chars(<<"2", "0", "2", "3", "-", "5", "-", "1">>,
                   <<"9", ":", "0", "5", ":", "0", "3">>)
\* 2023-02-30 12:00:00
DateNoSuchDay == Chars(<<"2", "0", "2", "3", "-", "0", "2", "-", "3", "0">>,
                       <<"1", "2", ":", "0", "0", ":", "0", "0">>)
\* 2023-05-01T12:00:00
DateIso == <<"2", "0", "2", "3", "-", "0", "5", "-", "0", "1", "T",
             "1", "2", ":", "0", "0", ":", "0", "0">>

\* the datetime attributes the article pages carry
DateTexts == {DateGood, DateWords, DateShort, DateNoSuchDay, DateIso}

\* headline: the itemprop="headline" element's .string, if the element is
\* there; paragraphs: the .string of every p; date: the datetime attribute
\* of the itemprop="datePublished" element; strongs: the .string of every
\* strong; topic_fields: the anchors' strings of every topic container
Soup(headline, paragraphs, date, strongs, topic_fields) ==
    [headline |-> headline, paragraphs |-> paragraphs, date |-> date,
     strongs |-> strongs, topic_fields |-> topic_fields]

RegularSoup ==
    Soup(<< <<"T">> >>, << <<"P">>, <<>>, <<"Q">> >>, <<DateGood>>,
         << <<"B">>, <<"A">> >>, << <<"t1", "t2">> >>)

OddSoups ==
    { [RegularSoup EXCEPT !.strongs = << <<"B">>, <<>> >>],
      [RegularSoup EXCEPT !.strongs = << <<"B">> >>],
      [RegularSoup EXCEPT !.strongs = <<>>],
      [RegularSoup EXCEPT !.date = <<DateWords>>],
      [RegularSoup EXCEPT !.date = <<DateShort>>],
      [RegularSoup EXCEPT !.date = <<DateNoSuchDay>>],
      [RegularSoup EXCEPT !.date = <<DateIso>>],
      [RegularSoup EXCEPT !.headline = <<>>],
      [RegularSoup EXCEPT !.topic_fields = <<>>] }

ArticleResponse(kind, soup) == [kind |-> kind, soup |-> soup]

RegularResponse == ArticleResponse("ok", RegularSoup)

OddResponses ==
    { ArticleResponse("ok", s) : s \in OddSoups }
        \cup { ArticleResponse("not_ok", RegularSoup),
               ArticleResponse("exception", RegularSoup) }

\* core_utils.article.article.Article(url, article_id)
Article(url, article_id) ==
    [url |-> url, article_id |-> article_id, title |-> <<>>, text |-> <<>>,
     date |-> <<>>, author |-> <<>>, topics |-> <<>>]

\* the outcome of a method of HTMLParser
Outcome(exception, art) == [raised |-> exception, article |-> art]

RECURSIVE ParagraphText(_)
ParagraphText(ps) ==
    IF ps = <<>> THEN <<>>
    ELSE IF Head(ps) = <<>> THEN ParagraphText(Tail(ps))
    ELSE <<"\n", Head(ps)[1]>> \o ParagraphText(Tail(ps))

\* HTMLParser._fill_article_with_text
FillArticleWithText(art, soup) ==
    IF soup.headline = <<>> THEN Outcome("AttributeError", art)
    ELSE Outcome("none",
           [art EXCEPT !.text =
               <<IF soup.headline[1] = <<>> THEN "None" ELSE soup.headline[1][1]>>
                   \o ParagraphText(soup.paragraphs)])

\* ---- datetime.datetime.strptime(date_str, '%Y-%m-%d %H:%M:%S') ----
\* The directives match as the regular expressions of _strptime do: %Y four
\* digits, %m %d %H %M %S one or two digits within their ranges (%d also a
\* space and a digit), the blank of the format one or more blanks, and the
\* whole text must be used up.

Blanks(s) == s # <<>> /\ \A i \in 1..Len(s) : s[i] = " "

InRange(f, lo, hi) ==
    /\ Len(f) \in {1, 2}
    /\ AllDigits(f)
    /\ NatOfDigits(f, 0) >= lo
    /\ NatOfDigits(f, 0) <= hi

DayField(f) ==
    \/ InRange(f, 1, 31)
    \/ Len(f) = 2 /\ f[1] = " " /\ InRange(<<f[2]>>, 1, 9)

DayValue(f) == IF f[1] = " " THEN NatOfDigits(<<f[2]>>, 0) ELSE NatOfDigits(f, 0)

IsLeap(y) == (y % 4 = 0 /\ y % 100 # 0) \/ y % 400 = 0

DaysInMonth(y, m) ==
    IF m = 2 THEN (IF IsLeap(y) THEN 29 ELSE 28)
    ELSE IF m \in {4, 6, 9, 11} THEN 30 ELSE 31

\* the ways date_str splits into the fields of the format: the lengths of
\* the month, day, hour, minute and second fields (the blanks take the rest)
FieldLengths == [m : 1..2, d : 1..2, H : 1..2, M : 1..2, S : 1..2]

BlanksOf(s, w) == Len(s) - (4 + 1 + w.m + 1 + w.d + w.H + 1 + w.M + 1 + w.S)

DateSplits(s) ==
    IF Len(s) < 5 \/ ~AllDigits(SubSeq(s, 1, 4)) \/ s[5] # "-" THEN {}
    ELSE
    { w \in FieldLengths :
        /\ BlanksOf(s, w) >= 1
        /\ InRange(SubSeq(s, 6, 5 + w.m), 1, 12)
        /\ s[6 + w.m] = "-"
        /\ DayField(SubSeq(s, 7 + w.m, 6 + w.m + w.d))
        /\ Blanks(SubSeq(s, 7 + w.m + w.d, 6 + w.m + w.d + BlanksOf(s, w)))
        /\ LET h == 7 + w.m + w.d + BlanksOf(s, w)
           IN  /\ InRange(SubSeq(s, h, h + w.H - 1), 0, 23)
               /\ s[h + w.H] = ":"
               /\ InRange(SubSeq(s, h + w.H + 1, h + w.H + w.M), 0, 59)
               /\ s[h + w.H + w.M + 1] = ":"
               /\ InRange(SubSeq(s, h + w.H + w.M + 2, h + w.H + w.M + 1 + w.S),
                          0, 61) }

DateTime(y, mo, d, h, mi, s) ==
    [year |-> y, month |-> mo, day |-> d, hour |-> h, minute |-> mi, second |-> s]

\* the datetime of a split; datetime refuses year 0, a day the month does
\* not have and a second above 59
DateTimeOf(date_str, w) ==
    LET h == 7 + w.m + w.d + BlanksOf(date_str, w)
        y == NatOfDigits(SubSeq(date_str, 1, 4), 0)
        mo == NatOfDigits(SubSeq(date_str, 6, 5 + w.m), 0)
        d == DayValue(SubSeq(date_str, 7 + w.m, 6 + w.m + w.d))
        sec == NatOfDigits(SubSeq(date_str, h + w.H + w.M + 2,
                                  h + w.H + w.M + 1 + w.S), 0)
    IN  IF y < 1 \/ d > DaysInMonth(y, mo) \/ sec > 59 THEN <<>>
        ELSE << DateTime(y, mo, d,
                  NatOfDigits(SubSeq(date_str, h, h + w.H - 1), 0),
                  NatOfDigits(SubSeq(date_str, h + w.H + 1, h + w.H + w.M), 0),
                  sec) >>

\* datetime.datetime.strptime(date_str, '%Y-%m-%d %H:%M:%S'): <<datetime>>,
\* or <<>> where ValueError is raised (no match, or a match that datetime
\* refuses)
Strptime(date_str) ==
    LET splits == DateSplits(date_str)
    IN  IF splits = {} THEN <<>>
        ELSE DateTimeOf(date_str, CHOOSE w \in splits : TRUE)

\* strptime of the date texts of the article pages, computed once
StrptimeOfDateTexts == [d \in DateTexts |-> Strptime(d)]

\* mutant: a text strptime refuses gives a default date
UnifyDateFormat_Defaulted(date_str) ==
    IF Strptime(date_str) = <<>> THEN <<DateTime(1970, 1, 1, 0, 0, 0)>>
    ELSE Strptime(date_str)

\* HTMLParser.unify_date_format
UnifyDateFormat(date_str) ==
    IF date_str \in DateTexts THEN StrptimeOfDateTexts[date_str]
    ELSE Strptime(date_str)

\* lines 372-376: the author from the strings of the strong elements
AuthorOf(strongs) ==
    IF Len(strongs) < 2 THEN Outcome("IndexError", <<>>)
    ELSE IF strongs[2] # <<>> /\ strongs[2][1] # ""
    THEN Outcome("none", <<strongs[2][1]>>)
    ELSE Outcome("none", <<"NOT FOUND">>)

\* HTMLParser._fill_article_with_meta_information; an exception leaves the
\* fields assigned before it
FillArticleWithMetaInformation(art, soup) ==
    IF soup.headline = <<>> THEN Outcome("AttributeError", art)
    ELSE LET a1 == [art EXCEPT !.title = soup.headline[1]]
         IN  IF soup.date = <<>> THEN Outcome("TypeError", a1)
             ELSE LET date == UnifyDateFormat(soup.date[1])
                      a2 == [a1 EXCEPT !.date = date]
                      author == AuthorOf(soup.strongs)
                      a3 == [a2 EXCEPT !.author = author.article]
                  IN  IF date = <<>> THEN Outcome("ValueError", a1)
                      ELSE IF author.raised # "none"
                      THEN Outcome(author.raised, a2)
                      ELSE IF soup.topic_fields = <<>>
                      THEN Outcome("IndexError", a3)
                      ELSE Outcome("none",
                             [a3 EXCEPT !.topics = soup.topic_fields[1]])

\* mutant: a response that is not ok is raised
Parse_RaiseOnNotOk(art, resp) ==
    IF resp.kind = "ok"
    THEN LET filled == FillArticleWithText(art, resp.soup)
         IN  IF filled.raised # "none" THEN filled
             ELSE FillArticleWithMetaInformation(filled.article, resp.soup)
    ELSE Outcome("HTTPError", art)

\* HTMLParser.parse for a response that is not an exception
Parse(art, resp) ==
    IF resp.kind = "ok"
    THEN LET filled == FillArticleWithText(art, resp.soup)
         IN  IF filled.raised # "none" THEN filled
             ELSE FillArticleWithMetaInformation(filled.article, resp.soup)
    ELSE Outcome("none", art)

----------------------------------------------------------------------------
(* The files of ASSETS_PATH and main                                       *)

\* a file <id>_raw.txt or <id>_meta.json: padded tells "01" from "1"; a raw
\* file holds the text, a meta file the meta information
File(id, padded, kind, text, meta) ==
    [id |-> id, padded |-> padded, kind |-> kind, text |-> text, meta |-> meta]

FileSize(f) == Len(f.text) + Len(f.meta)

\* core_utils.article.io.to_raw
ToRaw(art) == File(art.article_id, FALSE, "raw", art.text, <<>>)

\* core_utils.article.io.to_meta
ToMeta(art) ==
    File(art.article_id, FALSE, "meta", <<>>, <<[art EXCEPT !.text = <<>>]>>)

SameName(f, g) == f.id = g.id /\ f.padded = g.padded /\ f.kind = g.kind

\* open(path, 'w'): the file of that name is replaced
WriteFile(files, f) == { g \in files : ~SameName(g, f) } \cup {f}

\* the run of main number n, before it has done anything
Run(n, earlier) == [n |-> n, prepared |-> 0, written |-> {}, earlier |-> earlier]

\* base_path.mkdir(parents=True, exist_ok=True) where is_dir is false: the
\* files of the new directory
Mkdir(is_dir, files) == IF ~is_dir THEN {} ELSE files

\* mutant: the raw files are left in place
UnlinkAll_KeepRaw(files) == { f \in files : f.kind = "raw" }

\* for file in base_path.iterdir(): file.unlink(missing_ok=True): the files
\* that are left
UnlinkAll(files) == { f \in files : FALSE }

\* prepare_environment
PrepareEnvironment ==
    /\ pc = "prepare"
    /\ assets_is_dir' = TRUE
    /\ assets' = UnlinkAll(Mkdir(assets_is_dir, assets))
    /\ run' = [run EXCEPT !.prepared = @ + 1]
    /\ pc' = "crawler_init"
    /\ UNCHANGED <<raised, cfgVars, crawlVars, recVars, index, article,
                   article_response, odd, storage>>

MaxOdd == 1

\* mutant: the enumerate index is used as it is
ArticleId_FromZero(i) == i

\* article_id=index + 1
ArticleId(i) == i + 1

ArticleResponses ==
    {RegularResponse} \cup (IF odd < MaxOdd THEN OddResponses ELSE {})

\* one iteration of main's loop up to the return of parse: HTMLParser(...)
\* and parser.parse()
ParseArticle ==
    /\ pc = "parse"
    /\ index < Len(urls)
    /\ \E resp \in ArticleResponses :
        /\ fetched' = Append(fetched, urls[index + 1])
        /\ article_response' = <<resp>>
        /\ odd' = IF resp = RegularResponse THEN odd ELSE odd + 1
        /\ IF resp.kind = "exception"
           THEN /\ pc' = "raised" /\ raised' = "RequestException"
                /\ UNCHANGED article
           ELSE LET r == Parse(Article(urls[index + 1], ArticleId(index)), resp)
                IN  IF r.raised # "none"
                    THEN /\ pc' = "raised" /\ raised' = r.raised
                         /\ UNCHANGED article
                    ELSE /\ article' = <<r.article>>
                         /\ pc' = "persist"
                         /\ UNCHANGED raised
    /\ UNCHANGED <<cfgVars, url_pattern, urls, start_url, seed_urls, page,
                   listing, recVars, assets_is_dir, assets, index, run, storage>>

\* the rest of the iteration: to_raw(article) and to_meta(article)
Persist ==
    /\ pc = "persist"
    /\ assets' = WriteFile(WriteFile(assets, ToRaw(article[1])), ToMeta(article[1]))
    /\ run' = [run EXCEPT !.written =
                   WriteFile(WriteFile(@, ToRaw(article[1])), ToMeta(article[1]))]
    /\ index' = index + 1
    /\ article' = <<>>
    /\ article_response' = <<>>
    /\ pc' = "parse"
    /\ UNCHANGED <<raised, cfgVars, crawlVars, recVars, assets_is_dir, odd,
                   storage>>

\* the loop is over: print("It's done!")
MainDone ==
    /\ pc = "parse"
    /\ index = Len(urls)
    /\ pc' = "done"
    /\ UNCHANGED <<raised, cfgVars, crawlVars, recVars, mainVars, storage>>

----------------------------------------------------------------------------
(* CorpusManager (lab_6_pipeline): the dataset check over ASSETS_PATH      *)

\* path.glob('*_meta.json') and path.glob('*_raw.txt')
Glob(files, kind) == { f \in files : f.kind = kind }

\* core_utils.article.article.get_article_id_from_filepath
GetArticleIdFromFilepath(f) == f.id

\* list.sort(key=lambda x: int(get_article_id_from_filepath(x))): files of
\* equal id (1_raw.txt and 01_raw.txt) keep the order glob gave them, which
\* is taken here to be the plain name first
Before(f, g) ==
    \/ GetArticleIdFromFilepath(f) < GetArticleIdFromFilepath(g)
    \/ GetArticleIdFromFilepath(f) = GetArticleIdFromFilepath(g)
         /\ ~f.padded /\ g.padded

RECURSIVE SortById(_)
SortById(files) ==
    IF files = {} THEN <<>>
    ELSE LET first == CHOOSE f \in files : \A g \in files \ {f} : Before(f, g)
         IN  <<first>> \o SortById(files \ {first})

\* mutant: the ids of the meta files are not compared
PairConsistent_RawOnly(i, meta, raw) ==
    ~(\/ i # GetArticleIdFromFilepath(raw)
      \/ FileSize(meta) = 0
      \/ FileSize(raw) = 0)

\* the condition of lines 76-78 for the i-th pair (i is index + 1)
PairConsistent(i, meta, raw) ==
    ~(\/ i # GetArticleIdFromFilepath(meta)
      \/ i # GetArticleIdFromFilepath(raw)
      \/ FileSize(meta) = 0
      \/ FileSize(raw) = 0)

\* CorpusManager._validate_dataset: "ok" or the exception raised; a path
\* that is no directory is taken to be missing (FileNotFoundError; for a
\* path that is a file the code raises NotADirectoryError)
ValidateDataset(is_dir, files) ==
    IF ~is_dir THEN "FileNotFoundError"
    ELSE IF files = {} THEN "EmptyDirectoryError"
    ELSE LET metas == SortById(Glob(files, "meta"))
             raws == SortById(Glob(files, "raw"))
         IN  IF Len(metas) # Len(raws) THEN "InconsistentDatasetError"
             ELSE IF \A i \in 1..Len(metas) : PairConsistent(i, metas[i], raws[i])
             THEN "ok"
             ELSE "InconsistentDatasetError"

\* CorpusManager._scan_dataset: one entry per raw file, keyed by its id, with
\* the text from_raw reads
ScanDataset(files) ==
    { [article_id |-> GetArticleIdFromFilepath(f), text |-> f.text] :
        f \in Glob(files, "raw") }

\* CorpusManager.__init__
CorpusManagerInit ==
    /\ pc = "corpus"
    /\ LET r == ValidateDataset(assets_is_dir, assets)
       IN  IF r = "ok"
           THEN /\ storage' = <<ScanDataset(assets)>>
                /\ pc' = "scanned"
                /\ UNCHANGED raised
           ELSE /\ pc' = "raised"
                /\ raised' = r
                /\ UNCHANGED storage
    /\ UNCHANGED <<cfgVars, crawlVars, recVars, mainVars>>

vars == <<pc, raised, conf, config, url_pattern, urls, start_url, seed_urls,
          page, fetched, listing, bootstrap, last_page, assets_is_dir, assets, index,
          article, article_response, odd, run, storage>>

CrawlIdle ==
    /\ url_pattern = <<>>
    /\ urls = <<>>
    /\ start_url = <<>>
    /\ seed_urls = <<>>
    /\ page = 0
    /\ fetched = <<>>
    /\ listing = <<>>
    /\ bootstrap = <<>>
    /\ last_page = 0

MainIdle ==
    /\ assets_is_dir = FALSE
    /\ assets = {}
    /\ index = 0
    /\ article = <<>>
    /\ article_response = <<>>
    /\ odd = 0
    /\ run = Run(1, {})
    /\ storage = <<>>

InitConfig ==
    /\ pc = "config"
    /\ raised = "none"
    /\ conf \in ConfDocs
    /\ config = <<>>
    /\ CrawlIdle
    /\ MainIdle

ConstructConfig == ConfigInit("constructed")

NextConfig == ConstructConfig

SpecConfig == InitConfig /\ [][NextConfig]_vars

----------------------------------------------------------------------------
(* A run of the paginated crawler: Config, CrawlerRecursive, find_articles *)

ValidDoc(seeds) ==
    ConfDoc(seeds, JInt(2), JDict(<<>>), JStr(<<"u", "t", "f", "-", "8">>),
            JInt(1), JBool(TRUE), JBool(FALSE))

RunDocs ==
    { ValidDoc(JList(<<EStr(SeedPage0)>>)),
      ValidDoc(JList(<<EStr(SeedPage1), EStr(SeedPage0)>>)),
      ValidDoc(JList(<<>>)),
      ValidDoc(JList(<<EStr(HTTP \o <<"s">>)>>)) }

InitRecursive ==
    /\ pc = "config"
    /\ raised = "none"
    /\ conf \in RunDocs
    /\ config = <<>>
    /\ CrawlIdle
    /\ MainIdle

ConfigForCrawler == ConfigInit("crawler_init")

FetchPageOfRecursive == FetchListingPage("done")

NextRecursive ==
    \/ ConfigForCrawler
    \/ CrawlerRecursiveInit
    \/ Bootstrap
    \/ FetchPageOfRecursive

SpecRecursive == InitRecursive /\ [][NextRecursive]_vars

----------------------------------------------------------------------------
(* A run of main                                                           *)

OldArticle(id) ==
    [Article(HTTPS \o <<"o", "l", "d">>, id) EXCEPT !.text = <<"old">>]

LeftoverFiles ==
    { ToRaw(OldArticle(1)), ToMeta(OldArticle(1)),
      ToRaw(OldArticle(31)), ToMeta(OldArticle(31)) }

Init ==
    /\ pc = "config"
    /\ raised = "none"
    /\ conf \in RunDocs
    /\ config = <<>>
    /\ CrawlIdle
    /\ \/ assets_is_dir = FALSE /\ assets = {}
       \/ assets_is_dir = TRUE /\ assets = LeftoverFiles
    /\ index = 0
    /\ article = <<>>
    /\ article_response = <<>>
    /\ odd = 0
    /\ run = Run(1, {})
    /\ storage = <<>>

ConfigForMain == ConfigInit("prepare")

FetchPageOfCrawler == FetchListingPage("parse")

Next ==
    \/ ConfigForMain
    \/ PrepareEnvironment
    \/ CrawlerInit
    \/ FetchPageOfCrawler
    \/ ParseArticle
    \/ Persist
    \/ MainDone

Spec == Init /\ [][Next]_vars

----------------------------------------------------------------------------
(* Runs of main in succession                                              *)

Runs == 2

\* main is started again after a run has ended, normally or by an
\* exception: the objects of the ended run are gone; ASSETS_PATH keeps its
\* files and the configuration file is read anew (it may have been edited).
\* Article pages other than the regular one are served to the first run
\* only: the later runs end by themselves, after the articles of no, one or
\* two listing pages, or by an exception before the first article.
RunAgain ==
    /\ pc \in {"done", "raised"}
    /\ run.n < Runs
    /\ pc' = "config"
    /\ raised' = "none"
    /\ conf' \in RunDocs
    /\ config' = <<>>
    /\ url_pattern' = <<>>
    /\ urls' = <<>>
    /\ seed_urls' = <<>>
    /\ page' = 0
    /\ fetched' = <<>>
    /\ listing' = <<>>
    /\ index' = 0
    /\ article' = <<>>
    /\ article_response' = <<>>
    /\ odd' = MaxOdd
    /\ run' = Run(run.n + 1, { f.id : f \in run.written })
    /\ UNCHANGED <<start_url, recVars, assets_is_dir, assets, storage>>

NextInSuccession ==
    \/ ConfigForMain
    \/ PrepareEnvironment
    \/ CrawlerInit
    \/ FetchPageOfCrawler
    \/ ParseArticle
    \/ Persist
    \/ MainDone
    \/ RunAgain

SpecInSuccession == Init /\ [][NextInSuccession]_vars

----------------------------------------------------------------------------
(* A CorpusManager over a directory of artifacts                           *)

MaxId == 4

Stub(id, padded, kind) ==
    File(id, padded, kind, IF kind = "meta" THEN <<>> ELSE <<"x">>,
         IF kind = "meta" THEN <<Article(<<"u">>, id)>> ELSE <<>>)

\* the names a directory may hold: <id>_raw.txt and <id>_meta.json, the
\* zero-padded 01_raw.txt, and 1_cleaned.txt
StubFiles ==
    { Stub(id, FALSE, kind) : id \in 1..MaxId, kind \in {"raw", "meta"} }
        \cup { Stub(1, TRUE, "raw"), Stub(1, FALSE, "cleaned") }

Emptied(f) == [f EXCEPT !.text = <<>>, !.meta = <<>>]

NoFile == File(0, FALSE, "none", <<>>, <<>>)

\* the directory of the files d with f, if it is one of them, zero-length
Directory(d, f) == IF f \in d THEN (d \ {f}) \cup {Emptied(f)} ELSE d

InitCorpus ==
    /\ pc = "corpus"
    /\ raised = "none"
    /\ conf = ValidDoc(JList(<<EStr(SeedPage0)>>))
    /\ config = <<>>
    /\ CrawlIdle
    /\ \/ assets_is_dir = FALSE /\ assets = {}
       \/ /\ assets_is_dir = TRUE
          /\ \E d \in SUBSET StubFiles :
                \E f \in d \cup {NoFile} : assets = Directory(d, f)
    /\ index = 0
    /\ article = <<>>
    /\ article_response = <<>>
    /\ odd = 0
    /\ run = Run(1, {})
    /\ storage = <<>>

NextCorpus == CorpusManagerInit

SpecCorpus == InitCorpus /\ [][NextCorpus]_vars

----------------------------------------------------------------------------
(* Claims about Config (checked under SpecConfig).                         *)

Constructed == pc = "constructed" /\ raised = "none" /\ Len(config) = 1

\* What the specification calls a valid field (section 4.1); the seed URLs
\* are a non-empty list of strings that start with https://.
SeedsValid(v) ==
    /\ v.t = "list"
    /\ Len(v.xs) > 0
    /\ \A i \in 1..Len(v.xs) : v.xs[i].t = "str" /\ StartsWith(v.xs[i].s, HTTPS)
CountValid(v) == v.t = "int" /\ v.n >= 1 /\ v.n <= 150
HeadersValid(v) == v.t = "dict"
EncodingValid(v) == v.t = "str"
FlagsValid(c) == c.should_verify_certificate.t = "bool" /\ c.headless_mode.t = "bool"
TimeoutValid(v) == v.t \in {"int", "bool"} /\ v.n > 0 /\ v.n < 60

FirstInvalidField(c) ==
    IF ~SeedsValid(c.seed_urls) THEN "seed_urls"
    ELSE IF ~CountValid(c.total_articles_to_find_and_parse) THEN "total_articles"
    ELSE IF ~HeadersValid(c.headers) THEN "headers"
    ELSE IF ~EncodingValid(c.encoding) THEN "encoding"
    ELSE IF ~FlagsValid(c) THEN "flags"
    ELSE IF ~TimeoutValid(c.timeout) THEN "timeout"
    ELSE "none"

ErrorsOfField(f) ==
    CASE f = "seed_urls" -> {"IncorrectSeedURLError"}
      [] f = "total_articles" -> {"IncorrectNumberOfArticlesError",
                                  "NumberOfArticlesOutOfRangeError"}
      [] f = "headers" -> {"IncorrectHeadersError"}
      [] f = "encoding" -> {"IncorrectEncodingError"}
      [] f = "flags" -> {"IncorrectVerifyError"}
      [] f = "timeout" -> {"IncorrectTimeoutError"}
      [] OTHER -> {}

AccessorsEcho(cfg, c) ==
    /\ get_seed_urls(cfg) = c.seed_urls
    /\ get_num_articles(cfg) = c.total_articles_to_find_and_parse
    /\ get_headers(cfg) = c.headers
    /\ get_encoding(cfg) = c.encoding
    /\ get_timeout(cfg) = c.timeout
    /\ get_verify_certificate(cfg) = c.should_verify_certificate
    /\ get_headless_mode(cfg) = c.headless_mode

\* C1: once Config.__init__ has run on a document with all seven keys, the
\* error raised belongs to the first invalid field in the order seed URLs,
\* article count, headers, encoding, boolean flags, timeout; a Config exists
\* only when no field is invalid, and then its accessors echo the document.
C1_FirstInvalidFieldDecides ==
    pc # "config" =>
        IF FirstInvalidField(conf) = "none"
        THEN Constructed /\ AccessorsEcho(config[1], conf)
        ELSE /\ config = <<>>
             /\ raised \in ErrorsOfField(FirstInvalidField(conf))

\* The same statement over the documents whose seed_urls value is not a list
\* that is empty or holds a non-string: there the code agrees with it.
C1_HoldsOffEmptySeeds ==
    (/\ pc # "config"
     /\ ~(conf.seed_urls.t = "list" /\ conf.seed_urls.xs = <<>>)
     /\ ~(conf.seed_urls.t = "list"
          /\ \E i \in 1..Len(conf.seed_urls.xs) : conf.seed_urls.xs[i].t # "str"))
        => C1_FirstInvalidFieldDecides

OtherFieldsValid(c) ==
    /\ SeedsValid(c.seed_urls)
    /\ HeadersValid(c.headers)
    /\ EncodingValid(c.encoding)
    /\ FlagsValid(c)
    /\ TimeoutValid(c.timeout)

CountOutcome(errorForZero) ==
    LET num == conf.total_articles_to_find_and_parse
    IN  (pc # "config" /\ OtherFieldsValid(conf)) =>
          /\ (num.t # "int" \/ num.n < 0) =>
                (raised = "IncorrectNumberOfArticlesError" /\ config = <<>>)
          /\ (num.t = "int" /\ num.n = 0) =>
                (raised = errorForZero /\ config = <<>>)
          /\ (num.t = "int" /\ num.n >= 1 /\ num.n <= 150) =>
                (Constructed /\ get_num_articles(config[1]) = num)
          /\ (num.t = "int" /\ num.n > 150) =>
                (raised = "NumberOfArticlesOutOfRangeError" /\ config = <<>>)

\* C2 as stated: in an otherwise valid configuration a count of 0 fails with
\* IncorrectNumberOfArticlesError, 1 and 150 succeed, 151 fails with
\* NumberOfArticlesOutOfRangeError.
C2_ZeroIsIncorrectNumber == CountOutcome("IncorrectNumberOfArticlesError")

\* C2 amended: in an otherwise valid configuration a count of 0 fails with
\* NumberOfArticlesOutOfRangeError (0 is an integer and not negative, so it
\* passes the first check and fails the range check); 1 and 150 succeed, 151
\* fails with NumberOfArticlesOutOfRangeError; a non-integer, boolean or
\* negative count fails with IncorrectNumberOfArticlesError.
C2_ZeroIsOutOfRange == CountOutcome("NumberOfArticlesOutOfRangeError")

C2_Witness ==
    /\ pc = "raised"
    /\ OtherFieldsValid(conf)
    /\ conf.total_articles_to_find_and_parse = JInt(0)
    /\ raised = "NumberOfArticlesOutOfRangeError"

\* C9: a seed_urls value that is not a non-empty list of https:// strings is
\* rejected and no Config is constructed from it; the empty list is rejected
\* with IncorrectSeedURLError.
C9_InvalidSeedsRejected ==
    (pc # "config" /\ ~SeedsValid(conf.seed_urls)) =>
        /\ config = <<>>
        /\ raised # "none"
        /\ conf.seed_urls = JList(<<>>) => raised = "IncorrectSeedURLError"

----------------------------------------------------------------------------
(* Claims about CrawlerRecursive (checked under SpecRecursive).            *)

\* the first seed URL without its last character
Template == DropLast(conf.seed_urls.xs[1].s)

BootstrapNotOk == bootstrap # <<>> /\ bootstrap[1].kind = "not_ok"
BootstrapNoPager ==
    bootstrap # <<>> /\ bootstrap[1].kind = "ok" /\ bootstrap[1].pager = <<>>

\* C3 as stated: when the bootstrap response is not a success, or the page
\* has no last-page element, find_articles fails with an error; it never
\* completes normally with zero listing pages fetched and zero URLs.
C3_BootstrapFailureIsFatal ==
    (BootstrapNotOk \/ BootstrapNoPager) => (pc = "raised" /\ raised # "none")

\* C3 amended: when the last-page element is absent from a successfully
\* fetched bootstrap page, find_articles fails with an error (AttributeError);
\* when the bootstrap response is not a success, find_articles completes
\* normally, having fetched no listing page and collected no URL.
C3_OnlyMissingPagerIsFatal ==
    /\ BootstrapNoPager =>
        (pc = "raised" /\ raised = "AttributeError" /\ urls = <<>>)
    /\ BootstrapNotOk =>
        (/\ pc = "done"
         /\ raised = "none"
         /\ urls = <<>>
         /\ fetched = <<Template>>)

C3_Witness == BootstrapNotOk /\ pc = "done" /\ fetched = <<Template>>

Advertised ==
    IF /\ bootstrap # <<>>
       /\ bootstrap[1].kind = "ok"
       /\ bootstrap[1].pager # <<>>
       /\ IntOf(bootstrap[1].pager[1]) # <<>>
    THEN IntOf(bootstrap[1].pager[1])[1]
    ELSE 0 - 1

\* the bootstrap request followed by the requests for pages 0..k-1
RequestsUpTo(k) == <<Template>> \o [i \in 1..k |-> Template \o <<Digits[i]>>]

\* C5: when the bootstrap page advertises last-page bound N, the requests
\* issued are the template and then template+0, template+1, ... in ascending
\* order, one per step; the run issues N listing requests, whether or not
\* the listing responses are successes, and is over after them.
C5_PagesInAscendingOrder ==
    Advertised >= 0 =>
        /\ \E k \in 0..Advertised : fetched = RequestsUpTo(k) /\ page \in {k - 1, k}
        /\ pc = "done" => (fetched = RequestsUpTo(Advertised) /\ page = Advertised)
        /\ pc = "find_articles" => page < Advertised
        /\ pc = "raised" => raised = "RequestException"

C5_Witness ==
    /\ pc = "done"
    /\ Advertised = MaxLastPage
    /\ fetched = RequestsUpTo(MaxLastPage)
    /\ Len(urls) = ExtractionsPerPage

----------------------------------------------------------------------------
(* Claims about a run of main (checked under Spec).                        *)

IsPrefix(s, u) == Len(s) <= Len(u) /\ SubSeq(u, 1, Len(s)) = s

ConfiguredSeeds == [i \in 1..Len(conf.seed_urls.xs) |-> conf.seed_urls.xs[i].s]

OkPages == Cardinality({ i \in 1..Len(listing) : listing[i] })

\* C4: Crawler.find_articles requests the seed pages one at a time in the
\* configured order; a page whose response is ok appends exactly 10 entries
\* to urls, a page whose response is not ok appends none; entries collected
\* earlier stay where they are; the length of urls is 10 times the number of
\* ok pages.
C4_TenPerOkPage ==
    /\ [](Len(urls) = 10 * OkPages /\ Len(listing) = page)
    /\ [][ /\ IsPrefix(urls, urls')
           /\ page' # page =>
                /\ page' = page + 1
                /\ fetched' = Append(fetched, ConfiguredSeeds[page'])
                /\ Len(urls') = Len(urls) + (IF listing'[page'] THEN 10 ELSE 0)
         ]_vars

\* a page with three marker anchors gave ten entries, another page none
C4_Witness ==
    /\ pc = "parse"
    /\ listing = <<FALSE, TRUE>>
    /\ Len(urls) = 10
    /\ urls[10] = url_pattern \o <<"/", "a">>

IdsIn(files) == { f.id : f \in files }

Extracting == pc \in {"parse", "persist", "done"} \/ index > 0

\* C6: the k-th entry of crawler.urls is extracted with id k; when entry
\* k+1 is extracted the raw and meta files of entries 1..k are written; the
\* ids handed out so far are exactly 1..N, N the number of entries done.
C6_IdsInDiscoveryOrder ==
    /\ article # <<>> =>
        /\ article[1].article_id = index + 1
        /\ article[1].url = urls[index + 1]
    /\ Extracting =>
        /\ index <= Len(urls)
        /\ IdsIn(assets) = 1..index
        /\ \A k \in 1..index :
            /\ Cardinality({ f \in assets : f.id = k }) = 2
            /\ \E f \in assets :
                f.id = k /\ f.kind = "meta" /\ f.meta[1].article_id = k
                         /\ f.meta[1].url = urls[k]
            /\ \E f \in assets : f.id = k /\ f.kind = "raw"

C6_Witness ==
    /\ pc = "persist"
    /\ index = 2 * ExtractionsPerPage - 1
    /\ odd = 1
    /\ urls[1] # urls[index + 1]

NotOkResponse == article_response # <<>> /\ article_response[1].kind = "not_ok"

\* C7: when the response for the article URL is not ok, parse raises nothing
\* and returns the record as created, with its URL and id only; the run then
\* writes that record's raw and meta files and goes on to the next URL with
\* the next id.
C7_FailedFetchPassesThrough ==
    /\ [](NotOkResponse =>
            /\ pc = "persist"
            /\ raised = "none"
            /\ article = <<Article(urls[index + 1], index + 1)>>)
    /\ [][ (NotOkResponse /\ pc = "persist") =>
            /\ pc' = "parse"
            /\ index' = index + 1
            /\ ToRaw(article[1]) \in assets'
            /\ ToMeta(article[1]) \in assets'
            /\ urls' = urls
         ]_vars

\* a record of a failed fetch is on disk and later articles were extracted
C7_Witness ==
    /\ pc = "done"
    /\ \E f \in assets :
        /\ f.kind = "meta"
        /\ f.id < index
        /\ f.meta = <<[Article(urls[f.id], f.id) EXCEPT !.text = <<>>]>>
    /\ \E f \in assets : f.kind = "meta" /\ f.id = index /\ f.meta[1].author = <<"A">>

\* the page of the response differs from the regular page in its strong
\* elements only
OnlyStrongsVary ==
    /\ article_response # <<>>
    /\ article_response[1].kind = "ok"
    /\ article_response[1].soup =
         [RegularSoup EXCEPT !.strongs = article_response[1].soup.strongs]

\* C10: on a successfully fetched page the author is set to the text of the
\* second strong element when it exists and has text, and to "NOT FOUND"
\* when it is absent or has no text; an absent element raises nothing.
C10_AuthorOrSentinel ==
    OnlyStrongsVary =>
        LET strongs == article_response[1].soup.strongs
        IN  /\ pc = "persist"
            /\ raised = "none"
            /\ article[1].author =
                 IF Len(strongs) >= 2 /\ strongs[2] # <<>>
                 THEN <<strongs[2][1]>>
                 ELSE <<"NOT FOUND">>

\* what holds instead: the sentinel is used only for a second strong element
\* without text; fewer than two strong elements raise IndexError
C10_AbsentAuthorRaises ==
    OnlyStrongsVary =>
        LET strongs == article_response[1].soup.strongs
        IN  IF Len(strongs) < 2
            THEN pc = "raised" /\ raised = "IndexError"
            ELSE /\ pc = "persist"
                 /\ article[1].author =
                      IF strongs[2] # <<>> THEN <<strongs[2][1]>>
                      ELSE <<"NOT FOUND">>

----------------------------------------------------------------------------
(* Claims about CorpusManager (checked under SpecCorpus).                  *)

Raws == { f \in assets : f.kind = "raw" }
Metas == { f \in assets : f.kind = "meta" }

\* the ids of the files are exactly 1..N, each once
IdsAreOneToN(files) ==
    /\ IdsIn(files) = 1..Cardinality(files)
    /\ \A f, g \in files : f.id = g.id => f = g

Inconsistent ==
    \/ Cardinality(Raws) # Cardinality(Metas)
    \/ \E f \in Raws \cup Metas : FileSize(f) = 0
    \/ ~IdsAreOneToN(Raws)
    \/ ~IdsAreOneToN(Metas)

\* C8: over an existing directory _validate_dataset raises EmptyDirectoryError
\* when the directory holds nothing; otherwise it raises
\* InconsistentDatasetError exactly when the numbers of raw and meta files
\* differ, or one of them is zero-length, or the ids of the raw files or of
\* the meta files are not exactly 1..N; otherwise it passes; _scan_dataset
\* has loaded records only when the check passed.
C8_DatasetCheck ==
    (pc # "corpus" /\ assets_is_dir) =>
        /\ assets = {} <=> raised = "EmptyDirectoryError"
        /\ (assets # {} /\ Inconsistent) <=> raised = "InconsistentDatasetError"
        /\ (assets # {} /\ ~Inconsistent) <=> (pc = "scanned" /\ raised = "none")
        /\ storage # <<>> <=> pc = "scanned"
        /\ pc = "scanned" =>
            storage[1] = { [article_id |-> f.id, text |-> f.text] : f \in Raws }

\* raw ids {1,2,3} with meta ids {1,2,4} is refused
C8_Witness ==
    /\ pc = "raised"
    /\ raised = "InconsistentDatasetError"
    /\ IdsIn(Raws) = {1, 2, 3} /\ Cardinality(Raws) = 3
    /\ IdsIn(Metas) = {1, 2, 4} /\ Cardinality(Metas) = 3
    /\ \A f \in assets : FileSize(f) > 0

----------------------------------------------------------------------------
(* Claims about runs of main in succession (checked under                  *)
(* SpecInSuccession).                                                      *)

\* the run under way has got as far as prepare_environment
Prepared == run.prepared > 0

C11_ConfigErrorKeepsFiles ==
    (run.n > 1 /\ pc = "raised" /\ ~Prepared) =>
        { f.id : f \in assets } = run.earlier \cup { f.id : f \in LeftoverFiles \cap assets }

----------------------------------------------------------------------------
(* Claims about the publication date (checked under Spec).                 *)

\* the response parse got is an ok page that differs from the regular page
\* in its date text at most
OnlyDateVaries(resp) ==
    /\ resp.kind = "ok"
    /\ resp.soup.date # <<>>
    /\ resp.soup = [RegularSoup EXCEPT !.date = resp.soup.date]

\* the text has the shape YYYY-MM-DD HH:MM:SS: nineteen characters, digits
\* but for the separators
MatchesFixedFormat(s) ==
    /\ Len(s) = 19
    /\ \A i \in {1, 2, 3, 4, 6, 7, 9, 10, 12, 13, 15, 16, 18, 19} : IsDigit(s[i])
    /\ s[5] = "-" /\ s[8] = "-" /\ s[11] = " " /\ s[14] = ":" /\ s[17] = ":"

\* the date-time a text of that shape names, read off its positions
FixedFormatDateTime(s) ==
    DateTime(NatOfDigits(SubSeq(s, 1, 4), 0), NatOfDigits(SubSeq(s, 6, 7), 0),
             NatOfDigits(SubSeq(s, 9, 10), 0), NatOfDigits(SubSeq(s, 12, 13), 0),
             NatOfDigits(SubSeq(s, 15, 16), 0), NatOfDigits(SubSeq(s, 18, 19), 0))

\* what strptime makes of the date texts: 2023-05-01 12:00:00 and
\* 2023-5-1 9:05:03 are date-times, "May 1, 2023", 2023-02-30 12:00:00 and
\* 2023-05-01T12:00:00 are refused
DateTimeNamed(s) ==
    IF s = DateGood THEN <<DateTime(2023, 5, 1, 12, 0, 0)>>
    ELSE IF s = DateShort THEN <<DateTime(2023, 5, 1, 9, 5, 3)>>
    ELSE <<>>

\* the directory holds the two artifacts of the articles 1..k and no others
HoldsArticles(k) ==
    /\ { f.id : f \in assets } = 1..k
    /\ \A id \in 1..k : \A kind \in {"raw", "meta"} :
          \E f \in assets : f.id = id /\ f.kind = kind
    /\ \A f \in assets : f.kind \in {"raw", "meta"}

\* parse raised on the article after the index-th: the run is over, that
\* article is not persisted and the artifacts of the articles before it are
\* in place
AbortedAtArticle ==
    /\ pc = "raised"
    /\ raised = "ValueError"
    /\ article = <<>>
    /\ index < Len(urls)
    /\ HoldsArticles(index)

\* parse returned the record with the date-time dt
ReturnedWithDate(dt) ==
    /\ pc = "persist"
    /\ raised = "none"
    /\ article # <<>>
    /\ article[1].article_id = index + 1
    /\ article[1].date = <<dt>>

\* C12 as stated: a date text that is not of the shape YYYY-MM-DD HH:MM:SS
\* makes parse raise and ends the run at that article, with the earlier
\* artifacts in place and nothing persisted after it; a text of that shape
\* gives the date-time it names and the run goes on.
C12_FormatMismatchIsFatal ==
    /\ [](\A i \in 1..Len(article_response) :
            OnlyDateVaries(article_response[i]) =>
                IF MatchesFixedFormat(article_response[i].soup.date[1])
                THEN ReturnedWithDate(
                         FixedFormatDateTime(article_response[i].soup.date[1]))
                ELSE AbortedAtArticle)
    /\ [][pc # "raised"]_vars

\* C12, amended: a date text that strptime refuses for the format
\* '%Y-%m-%d %H:%M:%S' (no year-month-day, blanks, hour:minute:second, or
\* a date-time that does not exist) makes parse raise ValueError and ends
\* the run at that article, with the earlier artifacts in place and nothing
\* persisted after it; a text strptime accepts, fields of one digit
\* included, gives the date-time it names and the run goes on.
C12_RefusedDateIsFatal ==
    /\ [](\A i \in 1..Len(article_response) :
            OnlyDateVaries(article_response[i]) =>
                IF DateTimeNamed(article_response[i].soup.date[1]) # <<>>
                THEN ReturnedWithDate(
                         DateTimeNamed(article_response[i].soup.date[1])[1])
                ELSE AbortedAtArticle)
    /\ [][pc # "raised"]_vars

\* the date text "May 1, 2023" has ended a run that had persisted articles
C12_Witness ==
    /\ AbortedAtArticle
    /\ index > 0
    /\ article_response # <<>>
    /\ OnlyDateVaries(article_response[1])
    /\ article_response[1].soup.date = <<DateWords>>

----------------------------------------------------------------------------
(* Claims about the link extraction (checked under Spec).                  *)

\* the article URL _extract_url makes of an anchor's href
ArticleUrl(pattern, href) == pattern \o DropFirst(href, Len(NEWS))

\* the page has a marker anchor (hreflang ru) whose article URL is not among
\* the collected ones
HasUncollected(article_bs, pattern, collected) ==
    \E i \in 1..Len(article_bs) :
        /\ article_bs[i].hreflang = "ru"
        /\ MARKER \in Range(article_bs[i].strings)
        /\ ArticleUrl(pattern, article_bs[i].href) \notin Range(collected)

\* the step is find_articles taking the ten URLs of the ok page article_bs
ExtendsBy(article_bs) ==
    /\ pc = "find_articles"
    /\ Len(urls') = Len(urls) + ExtractionsPerPage
    /\ urls' = urls \o ExtractTen(article_bs, url_pattern, urls)

\* C13: of the ten URLs a crawl takes from an ok listing page, each one
\* taken while the page still has a marker anchor whose article URL is not
\* collected is itself not collected: it is neither in the list as it was
\* before the page nor among the URLs taken from the page before it.
C13_NeverAddsCollected ==
    [][\A article_bs \in ListingPages :
          ExtendsBy(article_bs) =>
              \A i \in (Len(urls) + 1)..Len(urls') :
                  HasUncollected(article_bs, url_pattern, SubSeq(urls', 1, i - 1))
                      => urls'[i] \notin Range(SubSeq(urls', 1, i - 1))]_vars

\* C13, supplementary: what the crawl does take from an ok listing page
\* with a marker anchor is ten times the article URL of the first one
C13_TenTimesTheFirstMarker ==
    [][\A article_bs \in ListingPages :
          (ExtendsBy(article_bs) /\ HasUncollected(article_bs, url_pattern, <<>>)) =>
              \E k \in 1..Len(article_bs) :
                  /\ article_bs[k].hreflang = "ru"
                  /\ MARKER \in Range(article_bs[k].strings)
                  /\ \A j \in 1..(k - 1) :
                        ~(/\ article_bs[j].hreflang = "ru"
                          /\ MARKER \in Range(article_bs[j].strings))
                  /\ \A i \in (Len(urls) + 1)..Len(urls') :
                        urls'[i] = ArticleUrl(url_pattern, article_bs[k].href)]_vars

====
